---- MODULE Spec2Model ----
(***************************************************************************)
(* A model of the cubito ray tracer (src/main.rs, src/material.rs): the    *)
(* shadow test, the recursive ray caster, the row-parallel render driver   *)
(* and the frame loop.                                                     *)
(*                                                                         *)
(* Numbers.  f32 values are modelled in fixed point: the integer n stands  *)
(* for n / FP.  Products and quotients truncate; the code rounds to the    *)
(* nearest f32 instead, so results agree up to the last unit only.         *)
(*                                                                         *)
(* Geometry.  Vectors are not modelled.  What a ray meets is given by the  *)
(* Intersect records the shapes return for it, and the dot products the    *)
(* shading reads are given with the hit; both are inputs of the steps      *)
(* that read them.                                                         *)
(***************************************************************************)
EXTENDS Integers, Sequences, FiniteSets, TLC

\* ------------------------------------------------------------------ bounds
MaxObjects == 2      \* longest object list
MaxLights == 1       \* longest light list of the ray-casting runs
MaxDist == 4         \* largest shadow-ray distance, in units of 1/FP
MaxHit == 2          \* largest hit distance of a cast ray, in units of 1/FP
MaxTex == 3          \* largest texture width and height
UVDen == 4           \* u and v are multiples of 1/UVDen
MaxFrames == 2       \* frames the frame loop is followed for
FbWidth == 2         \* framebuffer width
FbHeight == 2        \* framebuffer height

\* --------------------------------------------------------------- constants
FP == 1000
INFINITY == 2147483647
MAX_RAY_DEPTH == 1
EPS_SHADOW == FP \div 1000          \* the literal 1e-3 of cast_shadow
\* Angles are in units of PI / 600.
ACCELERATION == 3
MAX_VELOCITY == 20
DAMPING == 85                       \* per cent
PITCH_LIMIT == 299

\* ------------------------------------------------------------- fixed point
Min(a, b) == IF a < b THEN a ELSE b
Max(a, b) == IF a > b THEN a ELSE b
Clamp(x, lo, hi) == Min(Max(x, lo), hi)
Mul(a, b) == (a * b) \div FP
Div(a, b) == (a * FP) \div b

\* a * a, with a evaluated once
Sq(a) == CHOOSE y \in {Mul(v, v) : v \in {a}} : TRUE

RECURSIVE Powf(_, _)
Powf(x, n) ==
    IF n = 0 THEN FP
    ELSE IF n % 2 = 0 THEN Sq(Powf(x, n \div 2))
         ELSE Mul(x, Sq(Powf(x, n \div 2)))

\* ------------------------------------------------------------------ Color
Color(r, g, b) == [r |-> r * FP, g |-> g * FP, b |-> b * FP]
\* Each operand is evaluated once, then the channels are combined.
ColorAdd(a, b) ==
    CHOOSE c \in {[r |-> x.r + y.r, g |-> x.g + y.g, b |-> x.b + y.b] :
                      x \in {a}, y \in {b}} : TRUE
ColorMul(c, s) ==
    CHOOSE m \in {[r |-> Mul(x.r, s), g |-> Mul(x.g, s), b |-> Mul(x.b, s)] :
                      x \in {c}} : TRUE
BLACK == Color(0, 0, 0)
SKY == Color(135, 206, 235)

Channel(x) == Clamp((x + FP \div 2) \div FP, 0, 255)
to_hex(c) == Channel(c.r) * 65536 + Channel(c.g) * 256 + Channel(c.b)

\* --------------------------------------------------------------- Material
NoTexture == [width |-> 0, height |-> 0]
Texture(w, h) == [width |-> w, height |-> h]
get_pixel(tex, tx, ty) == Color(10 + tx, 20 + ty, 30 + tx + 10 * ty)

MaterialNew(diffuse, specular, albedo) ==
    [diffuse |-> diffuse, specular |-> specular, albedo |-> albedo,
     texture |-> NoTexture, is_crystal |-> FALSE]
MaterialWithTexture(tex, specular, albedo) ==
    [diffuse |-> Color(255, 255, 255), specular |-> specular, albedo |-> albedo,
     texture |-> tex, is_crystal |-> FALSE]
MaterialCrystal(diffuse, specular, albedo) ==
    [diffuse |-> diffuse, specular |-> specular, albedo |-> albedo,
     texture |-> NoTexture, is_crystal |-> TRUE]
MaterialBlack ==
    [diffuse |-> BLACK, specular |-> 0, albedo |-> <<0, 0>>,
     texture |-> NoTexture, is_crystal |-> FALSE]

\* -------------------------------------------------------------- Intersect
NoUV == <<>>
IntersectEmpty ==
    [is_intersecting |-> FALSE, distance |-> INFINITY, uv |-> NoUV, material |-> MaterialBlack]
IntersectNew(distance, uv, material) ==
    [is_intersecting |-> TRUE, distance |-> distance, uv |-> uv, material |-> material]

\* ------------------------------------------------------------ cast_shadow
\* The shadow intensity of one occluder at `distance` on a shadow ray of
\* length light_distance.
ShadowOfInverted(light_distance, distance) ==
    Min(Powf(Div(distance, light_distance), 2), FP)
ShadowOf(light_distance, distance) ==
    FP - Min(Powf(Div(distance, light_distance), 2), FP)

Occludes(shadow_intersect, light_distance) ==
    /\ shadow_intersect.is_intersecting
    /\ shadow_intersect.distance > EPS_SHADOW
    /\ shadow_intersect.distance < light_distance

RECURSIVE ShadowScanNoBreak(_, _, _)
ShadowScanNoBreak(light_distance, shadow_hits, i) ==
    IF i > Len(shadow_hits) THEN 0
    ELSE LET rest == ShadowScanNoBreak(light_distance, shadow_hits, i + 1)
         IN  IF Occludes(shadow_hits[i], light_distance) /\ rest = 0
             THEN ShadowOf(light_distance, shadow_hits[i].distance)
             ELSE rest

\* The loop of cast_shadow from object i on; shadow_hits[j] is what object j
\* returns for the shadow ray.
RECURSIVE ShadowScan(_, _, _)
ShadowScan(light_distance, shadow_hits, i) ==
    IF i > Len(shadow_hits) THEN 0
    ELSE IF Occludes(shadow_hits[i], light_distance)
         THEN ShadowOf(light_distance, shadow_hits[i].distance)
         ELSE ShadowScan(light_distance, shadow_hits, i + 1)

cast_shadow(light_distance, shadow_hits) == ShadowScan(light_distance, shadow_hits, 1)

\* ------------------------------------------------------------------ Light
Light(color, intensity) == [color |-> color, intensity |-> intensity]
light1 == Light(Color(255, 200, 100), FP)
light2 == Light(Color(100, 200, 255), (8 * FP) \div 10)
MainLights == <<light1, light2>>

\* ------------------------------------------------------- cast_ray: the scan
\* The loop over the objects from object i on, with the record kept so far;
\* hits[j] is what object j returns for the ray.
RECURSIVE NearestScanLast(_, _, _, _)
NearestScanLast(hits, i, intersect, zbuffer) ==
    IF i > Len(hits) THEN intersect
    ELSE IF hits[i].is_intersecting
         THEN NearestScanLast(hits, i + 1, hits[i], hits[i].distance)
         ELSE NearestScanLast(hits, i + 1, intersect, zbuffer)

RECURSIVE NearestScan(_, _, _, _)
NearestScan(hits, i, intersect, zbuffer) ==
    IF i > Len(hits) THEN intersect
    ELSE IF hits[i].is_intersecting /\ hits[i].distance < zbuffer
         THEN NearestScan(hits, i + 1, hits[i], hits[i].distance)
         ELSE NearestScan(hits, i + 1, intersect, zbuffer)

\* ---------------------------------------------------- cast_ray: base colour
TexelIndex(u, size) == (Clamp(u, 0, FP) * (size - 1)) \div FP

base_color(intersect) ==
    LET tex == intersect.material.texture
    IN  IF tex # NoTexture /\ intersect.uv # NoUV
        THEN get_pixel(tex, TexelIndex(intersect.uv[1], tex.width),
                            TexelIndex(intersect.uv[2], tex.height))
        ELSE intersect.material.diffuse

\* ------------------------------------------------------ cast_ray: lighting
\* One pass of the loop over the lights, channel by channel.  geom is the
\* geometry of the hit towards this light: the light's distance, what each
\* object returns for the shadow ray, normal . light_dir and
\* view_dir . reflect_dir.
LitAmount(geom) == FP - cast_shadow(geom.light_distance, geom.shadow_hits)

\* base_color * albedo[0] * diffuse_intensity * light.intensity * lit_amount
Diffuse(base, intersect, light, geom) ==
    Mul(Mul(Mul(Mul(base, intersect.material.albedo[1]),
                Min(Max(geom.ndotl, 0), FP)),
            light.intensity),
        LitAmount(geom))

\* light.color * albedo[1] * specular_intensity * light.intensity * lit_amount
Specular(color, intersect, light, geom) ==
    Mul(Mul(Mul(Mul(color, intersect.material.albedo[2]),
                Powf(Max(geom.vdotr, 0), intersect.material.specular)),
            light.intensity),
        LitAmount(geom))

LightTerm(intersect, base, light, geom) ==
    [r |-> Diffuse(base.r, intersect, light, geom) + Specular(light.color.r, intersect, light, geom),
     g |-> Diffuse(base.g, intersect, light, geom) + Specular(light.color.g, intersect, light, geom),
     b |-> Diffuse(base.b, intersect, light, geom) + Specular(light.color.b, intersect, light, geom)]

RECURSIVE LightLoop(_, _, _, _, _, _)
LightLoop(intersect, base, lightlist, geoms, i, lighting_color) ==
    IF i > Len(lightlist) THEN lighting_color
    ELSE LightLoop(intersect, base, lightlist, geoms, i + 1,
             ColorAdd(lighting_color, LightTerm(intersect, base, lightlist[i], geoms[i])))

Lighting(intersect, lightlist, geoms) ==
    LET base == base_color(intersect)
        ambient == ColorMul(base, (3 * FP) \div 10)
    IN  LightLoop(intersect, base, lightlist, geoms, 1, ambient)

\* --------------------------------------------------------- cast_ray: blend
BlendWithLocal(result_color, reflect_color, refract_color) ==
    ColorAdd(result_color,
             ColorAdd(ColorMul(reflect_color, FP \div 2),
                      ColorMul(refract_color, FP - FP \div 2)))
Blend(result_color, reflect_color, refract_color) ==
    ColorAdd(ColorMul(reflect_color, FP \div 2),
             ColorMul(refract_color, FP - FP \div 2))

\* ------------------------------------------------------------------ scenes
OpaqueMaterial == MaterialNew(Color(200, 50, 50), 30, <<(7 * FP) \div 10, (3 * FP) \div 10>>)
TexturedMaterial == MaterialWithTexture(Texture(2, 2), 80, <<(7 * FP) \div 10, (3 * FP) \div 10>>)
CrystalMaterial == MaterialCrystal(Color(255, 255, 255), 50, <<(6 * FP) \div 10, (3 * FP) \div 10>>)
Materials == {OpaqueMaterial, TexturedMaterial, CrystalMaterial}

Cube(material) == [material |-> material]
MainObjects == <<Cube(TexturedMaterial)>>

SeqsUpTo(S, n) == UNION {[1..k -> S] : k \in 0..n}

\* What Cube::ray_intersect can return for a shape of this material: the
\* empty record, or a hit carrying the shape's material, with UV for a
\* textured shape.
SampleUV == <<(3 * FP) \div 4, FP \div 4>>
RayIntersects(material, maxd) ==
    {IntersectEmpty} \cup
    {IntersectNew(d, IF material.texture # NoTexture THEN SampleUV ELSE NoUV, material) :
        d \in 1..maxd}

\* What the first n objects can return for one ray, in list order.
RECURSIVE HitListsUpTo(_, _, _)
HitListsUpTo(objs, n, maxd) ==
    IF n = 0 THEN {<<>>}
    ELSE {Append(h, x) : h \in HitListsUpTo(objs, n - 1, maxd),
                         x \in RayIntersects(objs[n].material, maxd)}
HitLists(objs, maxd) == HitListsUpTo(objs, Len(objs), maxd)

\* The geometry of a hit towards one light: the light in full view, or the
\* light behind every object of the list and seen at a slant.
AllHit(objs, d) ==
    [i \in 1..Len(objs) |->
        IntersectNew(d, IF objs[i].material.texture # NoTexture THEN SampleUV ELSE NoUV,
                     objs[i].material)]
AllEmpty(objs) == [i \in 1..Len(objs) |-> IntersectEmpty]
LightGeoms(objs) ==
    {[light_distance |-> MaxHit + 2, shadow_hits |-> AllEmpty(objs),
      ndotl |-> FP, vdotr |-> FP],
     [light_distance |-> MaxHit + 2, shadow_hits |-> AllHit(objs, MaxHit + 1),
      ndotl |-> FP \div 2, vdotr |-> -FP]}

VARIABLES
    objects,     \* the object list, &[Cube]
    lights,      \* the light list, &[Light]
    stack,       \* the cast_ray invocations in progress, innermost last
    result,      \* what the outermost cast_ray returned, or NoColor
    ncalls,      \* ghost: cast_ray invocations since the outermost call
    scanned,     \* ghost: the scan just made, its inputs and the record it kept
    returned,    \* ghost: the cast_ray invocation that has just returned
    \* cast_shadow on its own
    sh_distance, \* light_distance of the shadow ray
    sh_hits,     \* what each object returns for the shadow ray
    sh_intensity,\* what cast_shadow returned for them, or NotCast
    sh_prev,     \* ghost: the hits and the result of the call before the last move
    \* the base colour on its own
    tx_intersect,\* the record being shaded
    tx_base,     \* base_color for it, or NoColor
    \* main and render
    pc,          \* where main is in its loop
    iteration,   \* loop iterations begun
    camera,      \* the camera's orientation
    yaw_velocity,
    pitch_velocity,
    buffer,      \* framebuffer.buffer, row after row
    row_x,       \* per row of the pass in progress: the next x of its worker
    window,      \* the buffer last handed to the window
    writes       \* ghost: per cell, the rows whose worker wrote it in this pass

kvars == <<objects, lights, stack, result, ncalls, scanned, returned>>
svars == <<sh_distance, sh_hits, sh_intensity, sh_prev>>
tvars == <<tx_intersect, tx_base>>
rvars == <<pc, iteration, camera, yaw_velocity, pitch_velocity, buffer, row_x, window, writes>>
vars == <<kvars, svars, tvars, rvars>>

NoColor == <<>>
NoScan == <<>>
NoReturn == <<>>

Frame(depth, kind) ==
    [depth |-> depth, kind |-> kind, pc |-> "enter",
     intersect |-> IntersectEmpty,
     result_color |-> BLACK, reflect_color |-> BLACK, refract_color |-> BLACK,
     tests |-> 0, k_negative |-> FALSE, kids |-> <<>>]

Top == stack[Len(stack)]
SetTop(f) == [stack EXCEPT ![Len(stack)] = f]

\* The depth a recursive call is made with.
SameDepth(depth) == depth
NextDepth(depth) == depth + 1

\* The bound test at the head of cast_ray.
NeverTooDeep(depth) == FALSE
TooDeepOffByOne(depth) == depth > MAX_RAY_DEPTH + 1
TooDeep(depth) == depth > MAX_RAY_DEPTH

\* The invocation f returns color to its caller.
Return(f, color) ==
    /\ returned' = [depth |-> f.depth, kind |-> f.kind, tests |-> f.tests,
                    hit |-> f.intersect, result_color |-> f.result_color,
                    k_negative |-> f.k_negative, kids |-> f.kids, color |-> color]
    /\ IF Len(stack) = 1
       THEN /\ stack' = <<>>
            /\ result' = color
       ELSE LET caller == stack[Len(stack) - 1]
                kid == [kind |-> f.kind, depth |-> f.depth, color |-> color]
                after == IF caller.pc = "await_reflect"
                         THEN [caller EXCEPT !.reflect_color = color, !.pc = "refract",
                                             !.kids = Append(@, kid)]
                         ELSE [caller EXCEPT !.refract_color = color, !.pc = "blend",
                                             !.kids = Append(@, kid)]
            IN  /\ stack' = Append(SubSeq(stack, 1, Len(stack) - 2), after)
                /\ result' = result

\* A caller (render, or a test) invokes cast_ray.
Call(depth) ==
    /\ stack = <<>>
    /\ stack' = <<Frame(depth, "primary")>>
    /\ result' = NoColor
    /\ ncalls' = 1
    /\ scanned' = NoScan
    /\ returned' = NoReturn
    /\ UNCHANGED <<objects, lights, svars, tvars, rvars>>

\* main.rs 66-68
Enter ==
    /\ stack # <<>> /\ Top.pc = "enter"
    /\ IF TooDeep(Top.depth)
       THEN Return(Top, SKY)
       ELSE /\ stack' = SetTop([Top EXCEPT !.pc = "scan"])
            /\ result' = result
            /\ returned' = NoReturn
    /\ scanned' = NoScan
    /\ UNCHANGED <<objects, lights, ncalls, svars, tvars, rvars>>

\* main.rs 70-83; hits[i] is what object i returns for the ray
Scan ==
    /\ stack # <<>> /\ Top.pc = "scan"
    /\ \E hits \in HitLists(objects, MaxHit) :
        \E intersect \in {NearestScan(hits, 1, IntersectEmpty, INFINITY)} :
          LET f == [Top EXCEPT !.intersect = intersect, !.tests = Len(hits)]
          IN  /\ scanned' = [hits |-> hits, intersect |-> intersect]
              /\ IF ~intersect.is_intersecting
                 THEN Return(f, SKY)
                 ELSE /\ stack' = SetTop([f EXCEPT !.pc = "shade"])
                      /\ result' = result
                      /\ returned' = NoReturn
    /\ UNCHANGED <<objects, lights, ncalls, svars, tvars, rvars>>

\* main.rs 85-124, and 158 for an opaque material; geom is the geometry of
\* the hit towards the lights
Shade ==
    /\ stack # <<>> /\ Top.pc = "shade"
    /\ \E geom \in LightGeoms(objects) :
        \E result_color \in {Lighting(Top.intersect, lights,
                                      [i \in 1..Len(lights) |-> geom])} :
          LET f == [Top EXCEPT !.result_color = result_color]
          IN  IF ~f.intersect.material.is_crystal
              THEN Return(f, f.result_color)
              ELSE /\ stack' = SetTop([f EXCEPT !.pc = "reflect"])
                   /\ result' = result
                   /\ returned' = NoReturn
    /\ scanned' = NoScan
    /\ UNCHANGED <<objects, lights, ncalls, svars, tvars, rvars>>

\* main.rs 126-133
Reflect ==
    /\ stack # <<>> /\ Top.pc = "reflect"
    /\ stack' = Append(SetTop([Top EXCEPT !.pc = "await_reflect"]),
                       Frame(NextDepth(Top.depth), "reflect"))
    /\ ncalls' = ncalls + 1
    /\ scanned' = NoScan
    /\ returned' = NoReturn
    /\ UNCHANGED <<objects, lights, result, svars, tvars, rvars>>

\* main.rs 135-152; k_negative is the sign of the discriminant k
Refract ==
    /\ stack # <<>> /\ Top.pc = "refract"
    /\ \E k_negative \in BOOLEAN :
          IF ~k_negative
          THEN /\ stack' = Append(SetTop([Top EXCEPT !.pc = "await_refract"]),
                                  Frame(NextDepth(Top.depth), "refract"))
               /\ ncalls' = ncalls + 1
          ELSE /\ stack' = SetTop([Top EXCEPT !.pc = "blend", !.k_negative = TRUE])
               /\ ncalls' = ncalls
    /\ scanned' = NoScan
    /\ returned' = NoReturn
    /\ UNCHANGED <<objects, lights, result, svars, tvars, rvars>>

\* main.rs 154-155
Mix ==
    /\ stack # <<>> /\ Top.pc = "blend"
    /\ \E color \in {Blend(Top.result_color, Top.reflect_color, Top.refract_color)} :
          Return(Top, color)
    /\ scanned' = NoScan
    /\ UNCHANGED <<objects, lights, ncalls, svars, tvars, rvars>>

\* ------------------------------------------------------ cast_shadow, alone
NotCast == 0 - 1
NoPrev == <<>>

ShadowIntersects ==
    {IntersectEmpty} \cup {IntersectNew(d, NoUV, OpaqueMaterial) : d \in 0..(MaxDist + 1)}

\* cast_shadow is called for a shaded point, a light and an object list.
CastShadow ==
    /\ sh_intensity = NotCast
    /\ sh_intensity' = cast_shadow(sh_distance, sh_hits)
    /\ UNCHANGED <<sh_distance, sh_hits, sh_prev, kvars, tvars, rvars>>

\* Object i moves along the shadow ray to distance d, and cast_shadow is
\* called again for the same point and light.
MoveOccluder(i, d) ==
    /\ sh_intensity # NotCast
    /\ sh_hits[i].is_intersecting
    /\ sh_hits[i].distance # d
    /\ sh_prev' = [hits |-> sh_hits, intensity |-> sh_intensity]
    /\ sh_hits' = [sh_hits EXCEPT ![i].distance = d]
    /\ sh_intensity' = cast_shadow(sh_distance, sh_hits')
    /\ UNCHANGED <<sh_distance, kvars, tvars, rvars>>

\* --------------------------------------------------- the base colour, alone
UVs == {(k * FP) \div UVDen : k \in (-1)..(UVDen + 1)}
Textures == {Texture(w, h) : w \in 1..MaxTex, h \in 1..MaxTex}
MainAlbedo == <<(7 * FP) \div 10, (3 * FP) \div 10>>

\* main.rs 90-104 for the record tx_intersect
SampleBase ==
    /\ tx_base = NoColor
    /\ tx_base' = base_color(tx_intersect)
    /\ UNCHANGED <<tx_intersect, kvars, svars, rvars>>

\* ------------------------------------------------- cast_ray as a function
\* A ray is given with everything cast_ray reads of the scene along it: what
\* the objects return for it, the geometry of its hit towards each light, the
\* sign of the refraction discriminant and the two secondary rays.
NoRay == <<>>
Ray(hits, geoms, k_negative, reflected, refracted) ==
    [hits |-> hits, geoms |-> geoms, k_negative |-> k_negative,
     reflected |-> reflected, refracted |-> refracted]

RECURSIVE cast_ray(_, _, _)
cast_ray(ray, lightlist, depth) ==
    IF TooDeep(depth) THEN SKY
    ELSE LET intersect == NearestScan(ray.hits, 1, IntersectEmpty, INFINITY)
         IN  IF ~intersect.is_intersecting THEN SKY
             ELSE LET result_color == Lighting(intersect, lightlist, ray.geoms)
                  IN  IF ~intersect.material.is_crystal THEN result_color
                      ELSE Blend(result_color,
                                 cast_ray(ray.reflected, lightlist, NextDepth(depth)),
                                 IF ray.k_negative THEN BLACK
                                 ELSE cast_ray(ray.refracted, lightlist, NextDepth(depth)))

\* ------------------------------------------------------------------ Camera
Camera(yaw, pitch) == [yaw |-> yaw, pitch |-> pitch]
orbit(cam, delta_yaw, delta_pitch) ==
    Camera((cam.yaw + delta_yaw) % 1200,
           Clamp(cam.pitch + delta_pitch, -PITCH_LIMIT, PITCH_LIMIT))

\* The primary ray of pixel (x, y): camera.position and
\* camera.basis_change of the pixel's direction, met with the objects.
PixelRay(cam, objs, lightlist, x, y) ==
    LET seen == (x + 2 * y + cam.yaw + cam.pitch) % 3 # 0
        uv == <<(x * FP) \div FbWidth, (y * FP) \div FbHeight>>
        hits == [i \in 1..Len(objs) |->
                    IF seen THEN IntersectNew(1 + ((x + i) % MaxHit),
                                     IF objs[i].material.texture # NoTexture THEN uv ELSE NoUV,
                                     objs[i].material)
                    ELSE IntersectEmpty]
        geom == [light_distance |-> MaxHit + 2, shadow_hits |-> AllEmpty(objs),
                 ndotl |-> FP - (FP \div 4) * ((x + y) % 2), vdotr |-> FP \div 2]
    IN  Ray(hits, [i \in 1..Len(lightlist) |-> geom], FALSE, NoRay, NoRay)

\* ------------------------------------------------------------------ render
\* par_chunks_mut(width).enumerate(): chunk y starts at this index of the
\* buffer, and there are this many chunks.
ChunkStartShort(y, width) == y * (width - 1)
ChunkStart(y, width) == y * width
NumChunks(len, width) == (len + width - 1) \div width

Rows == 0..(NumChunks(Len(buffer), FbWidth) - 1)
Running(y) == row_x[y] < FbWidth

\* for_each returns when every chunk's closure has returned.
SomeRowDone == \E y \in Rows : ~Running(y)
RenderDone == \A y \in Rows : ~Running(y)

\* main.rs 162-173: render starts, one closure per row
Fork ==
    /\ pc = "render"
    /\ row_x' = [y \in Rows |-> 0]
    /\ writes' = [i \in 1..Len(buffer) |-> <<>>]
    /\ pc' = "rendering"
    /\ UNCHANGED <<iteration, camera, yaw_velocity, pitch_velocity, buffer, window,
                 kvars, svars, tvars>>

\* main.rs 174-185: the closure of row y renders its next pixel
Pixel(y) ==
    /\ Running(y)
    /\ LET x == row_x[y]
           i == ChunkStart(y, FbWidth) + x + 1
           pixel_color == cast_ray(PixelRay(camera, objects, lights, x, y), lights, 0)
       IN  /\ buffer' = [buffer EXCEPT ![i] = to_hex(pixel_color)]
           /\ writes' = [writes EXCEPT ![i] = Append(@, y)]
    /\ row_x' = [row_x EXCEPT ![y] = @ + 1]
    /\ UNCHANGED <<pc, iteration, camera, yaw_velocity, pitch_velocity, window,
                 kvars, svars, tvars>>

\* main.rs 186-187: for_each and render return
Join ==
    /\ pc = "rendering"
    /\ RenderDone
    /\ pc' = "blit"
    /\ UNCHANGED <<iteration, camera, yaw_velocity, pitch_velocity, buffer, row_x, window, writes,
                 kvars, svars, tvars>>

\* -------------------------------------------------------------------- main
Damp(v) == IF v >= 0 THEN (v * DAMPING) \div 100 ELSE -(((-v) * DAMPING) \div 100)
Keys == {"A", "D", "W", "S"}

\* main.rs 234-235: the window was closed, or Escape is down
Exit ==
    /\ pc = "loop"
    /\ pc' = "exit"
    /\ UNCHANGED <<iteration, camera, yaw_velocity, pitch_velocity, buffer, row_x, window, writes,
                 kvars, svars, tvars>>

\* main.rs 237-246: the keys that are down move the camera, and render is called
Mutate(down) ==
    /\ pc = "loop"
    /\ iteration < MaxFrames
    /\ LET yaw1 == IF "A" \in down THEN Min(yaw_velocity + ACCELERATION, MAX_VELOCITY)
                   ELSE yaw_velocity
           yaw2 == IF "D" \in down THEN Max(yaw1 - ACCELERATION, -MAX_VELOCITY) ELSE yaw1
           pitch1 == IF "W" \in down THEN Max(pitch_velocity - ACCELERATION, -MAX_VELOCITY)
                     ELSE pitch_velocity
           pitch2 == IF "S" \in down THEN Min(pitch1 + ACCELERATION, MAX_VELOCITY) ELSE pitch1
       IN  /\ camera' = orbit(camera, yaw2, pitch2)
           /\ yaw_velocity' = Damp(yaw2)
           /\ pitch_velocity' = Damp(pitch2)
    /\ iteration' = iteration + 1
    /\ pc' = "render"
    /\ UNCHANGED <<buffer, row_x, window, writes,
                 kvars, svars, tvars>>

\* main.rs 248-249: the buffer goes to the window, and the loop sleeps
Blit ==
    /\ pc = "blit"
    /\ window' = buffer
    /\ pc' = "loop"
    /\ UNCHANGED <<iteration, camera, yaw_velocity, pitch_velocity, buffer, row_x, writes,
                 kvars, svars, tvars>>

\* ---------------------------------------------------------- specifications
\* Scenes: the sub-lists of a list with one cube of each material, without
\* lights or with the first lights of main.
AllCubes == <<Cube(TexturedMaterial), Cube(OpaqueMaterial), Cube(CrystalMaterial)>>
Rank(cube) == CHOOSE i \in 1..Len(AllCubes) : AllCubes[i] = cube
Scenes ==
    {s \in SeqsUpTo({Cube(m) : m \in Materials}, MaxObjects) :
        \A i, j \in 1..Len(s) : i < j => Rank(s[i]) < Rank(s[j])}
LightLists == {<<>>, SubSeq(MainLights, 1, Min(MaxLights, Len(MainLights)))}
Depths == 0..(MAX_RAY_DEPTH + 1)

KIdle ==
    /\ stack = <<>> /\ result = NoColor /\ ncalls = 0
    /\ scanned = NoScan /\ returned = NoReturn
SIdle ==
    /\ sh_distance = 1 /\ sh_hits = <<>> /\ sh_intensity = NotCast /\ sh_prev = NoPrev
TIdle ==
    /\ tx_intersect = IntersectEmpty /\ tx_base = NoColor
RIdle ==
    /\ pc = "loop" /\ iteration = 0
    /\ camera = Camera(0, 0) /\ yaw_velocity = 0 /\ pitch_velocity = 0
    /\ buffer = [i \in 1..(FbWidth * FbHeight) |-> 0]
    /\ row_x = [y \in 0..(FbHeight - 1) |-> FbWidth]
    /\ window = <<>>
    /\ writes = [i \in 1..(FbWidth * FbHeight) |-> <<>>]

\* cast_ray, for every object list and light list
KInit ==
    /\ objects \in Scenes
    /\ lights \in LightLists
    /\ KIdle /\ SIdle /\ TIdle /\ RIdle

KStep ==
    \/ Enter
    \/ Scan
    \/ Shade
    \/ Reflect
    \/ Refract
    \/ Mix

KNext ==
    \/ \E depth \in Depths : Call(depth)
    \/ Enter
    \/ Scan
    \/ Shade
    \/ Reflect
    \/ Refract
    \/ Mix

Spec == KInit /\ [][KNext]_vars
FairSpec == Spec /\ WF_vars(KStep)

\* cast_shadow, for every light distance and every list of shadow-ray hits
SInit ==
    /\ objects = <<>> /\ lights = <<>>
    /\ KIdle /\ TIdle /\ RIdle
    /\ sh_distance \in 1..(MaxDist + 1)
    /\ sh_hits \in SeqsUpTo(ShadowIntersects, MaxObjects)
    /\ sh_intensity = NotCast
    /\ sh_prev = NoPrev

SNext ==
    \/ CastShadow
    \/ \E i \in 1..Len(sh_hits) : \E d \in 0..(MaxDist + 1) : MoveOccluder(i, d)

ShadowSpec == SInit /\ [][SNext]_vars

\* the base colour, for every texture size and every UV
TInit ==
    /\ objects = <<>> /\ lights = <<>>
    /\ KIdle /\ SIdle /\ RIdle
    /\ \E material \in {OpaqueMaterial} \cup
                       {MaterialWithTexture(tex, 80, MainAlbedo) : tex \in Textures} :
       \E uv \in {NoUV} \cup (UVs \X UVs) :
          tx_intersect = IntersectNew(1, uv, material)
    /\ tx_base = NoColor

TNext == SampleBase

TextureSpec == TInit /\ [][TNext]_vars

\* main: the scene of main.rs, the frame loop and the render passes
RInit ==
    /\ objects = MainObjects /\ lights = MainLights
    /\ KIdle /\ SIdle /\ TIdle /\ RIdle

RNext ==
    \/ Exit
    \/ \E down \in SUBSET Keys : Mutate(down)
    \/ Fork
    \/ \E y \in Rows : Pixel(y)
    \/ Join
    \/ Blit

MainSpec == RInit /\ [][RNext]_vars

\* ------------------------------------------------------------------ claims
Frames == {stack[i] : i \in 1..Len(stack)}
FromDepthZero == stack # <<>> /\ stack[1].depth = 0
Half(c) == [r |-> c.r \div 2, g |-> c.g \div 2, b |-> c.b \div 2]
NoneHit(hits) == \A i \in 1..Len(hits) : ~hits[i].is_intersecting

\* C1: cast_ray returns exactly the background colour (135, 206, 235) when
\* it is called with depth > MAX_RAY_DEPTH, and then it has tested no shape;
\* and when depth <= MAX_RAY_DEPTH and no shape of the list reports a hit.
C1_Background ==
    returned # NoReturn =>
        /\ returned.depth > MAX_RAY_DEPTH =>
              /\ returned.color = [r |-> 135 * FP, g |-> 206 * FP, b |-> 235 * FP]
              /\ returned.tests = 0
        /\ (returned.depth <= MAX_RAY_DEPTH /\ scanned # NoScan /\ NoneHit(scanned.hits)) =>
              returned.color = [r |-> 135 * FP, g |-> 206 * FP, b |-> 235 * FP]

\* C1, its case: a call within the bound, on a scene with shapes and lights,
\* whose ray no shape reports a hit for, has returned.
C1_Witness ==
    /\ returned # NoReturn /\ returned.depth <= MAX_RAY_DEPTH
    /\ scanned # NoScan /\ Len(scanned.hits) = MaxObjects /\ NoneHit(scanned.hits)
    /\ lights # <<>>

\* C2: a cast_ray call within the bound whose nearest hit is crystal returns
\* half the colour its reflected call returned at depth + 1 plus half the
\* colour its refracted call returned at depth + 1, or plus half of black,
\* with no refracted call made, when k is negative; the local colour is no
\* part of it.
C2_CrystalBlend ==
    (/\ returned # NoReturn
     /\ returned.depth <= MAX_RAY_DEPTH
     /\ returned.hit.is_intersecting
     /\ returned.hit.material.is_crystal) =>
        LET kids == returned.kids
        IN  /\ Len(kids) >= 1
            /\ kids[1].kind = "reflect" /\ kids[1].depth = returned.depth + 1
            /\ IF returned.k_negative
               THEN /\ Len(kids) = 1
                    /\ returned.color = Half(kids[1].color)
               ELSE /\ Len(kids) = 2
                    /\ kids[2].kind = "refract" /\ kids[2].depth = returned.depth + 1
                    /\ returned.color.r = kids[1].color.r \div 2 + kids[2].color.r \div 2
                    /\ returned.color.g = kids[1].color.g \div 2 + kids[2].color.g \div 2
                    /\ returned.color.b = kids[1].color.b \div 2 + kids[2].color.b \div 2

\* C2, its case: a crystal hit at depth 0 with a lit local colour, a
\* reflected ray that was shaded and a negative discriminant has returned.
C2_Witness ==
    /\ returned # NoReturn /\ returned.depth = 0
    /\ returned.hit.is_intersecting /\ returned.hit.material.is_crystal
    /\ returned.k_negative
    /\ returned.result_color # BLACK
    /\ Len(returned.kids) = 1 /\ returned.kids[1].color # SKY

\* C4, the bounds: every recursive call is made at depth + 1, an invocation
\* beyond the bound stays at its first test and calls nothing, no invocation
\* makes more than two calls, and there are at most 7 invocations.
C4_Bounded ==
    /\ \A i \in 2..Len(stack) : stack[i].depth = stack[i - 1].depth + 1
    /\ \A f \in Frames : f.depth > MAX_RAY_DEPTH => (f.pc = "enter" /\ f.kids = <<>>)
    /\ \A f \in Frames : Len(f.kids) <= 2
    /\ ncalls <= 7

\* C4: every cast_ray call terminates, within the bounds above.
C4_Terminates ==
    /\ []C4_Bounded
    /\ (stack # <<>>) ~> (stack = <<>>)

\* C4, its case: a call at depth 0 has returned after 7 invocations.
C4_Witness ==
    /\ stack = <<>> /\ result # NoColor
    /\ returned # NoReturn /\ returned.depth = 0
    /\ ncalls = 7

\* C7 as stated: under a primary ray cast at depth 0, no cast_ray invocation
\* is made with depth 2 or more.
C7_NoDepthTwo ==
    FromDepthZero => \A f \in Frames : f.depth < 2

\* C7 as amended: under a primary ray cast at depth 0 the invocations at
\* depth 1 test the scene, invocations are made at depth 2 but test no shape,
\* call nothing and return the background colour, and none is made at depth 3
\* or more.
C7_OneLevel ==
    /\ FromDepthZero =>
          \A f \in Frames :
             /\ f.depth <= 2
             /\ f.depth = 2 => (f.pc = "enter" /\ f.tests = 0 /\ f.kids = <<>>)
    /\ returned # NoReturn =>
          /\ returned.depth = 2 => (returned.color = SKY /\ returned.tests = 0)
          /\ returned.depth = 1 => returned.tests = Len(objects)

\* C7, its case: a secondary ray at depth 1 has hit a crystal surface and
\* spawned an invocation at depth 2.
C7_Witness ==
    /\ FromDepthZero /\ Len(stack) = 3
    /\ stack[2].intersect.material.is_crystal
    /\ stack[3].depth = 2

\* C9: after the scan, if some shape reports a hit, the record kept is one
\* shape's reported record, no reported hit is nearer, and it is the record
\* the invocation goes on to shade; if none does, no record is kept.
C9_Nearest ==
    scanned # NoScan =>
        LET hits == scanned.hits
            reported == {i \in 1..Len(hits) : hits[i].is_intersecting}
        IN  IF reported = {}
            THEN ~scanned.intersect.is_intersecting
            ELSE /\ \E i \in reported :
                       /\ scanned.intersect = hits[i]
                       /\ \A j \in reported : hits[i].distance <= hits[j].distance
                 /\ stack # <<>> /\ Top.pc = "shade" /\ Top.intersect = scanned.intersect

\* C9, its case: two shapes of different materials report hits, and the
\* second of the list is the nearer.
C9_Witness ==
    /\ scanned # NoScan /\ Len(scanned.hits) = 2
    /\ scanned.hits[1].is_intersecting /\ scanned.hits[2].is_intersecting
    /\ scanned.hits[2].distance < scanned.hits[1].distance
    /\ scanned.hits[1].material # scanned.hits[2].material

\* The move of the one occluder i of the shadow ray, from a distance below
\* the light's to a distance no larger.
OneOccluderMovedCloser(i) ==
    /\ sh_prev # NoPrev
    /\ \A j \in 1..Len(sh_hits) : sh_prev.hits[j].is_intersecting <=> j = i
    /\ sh_prev.hits[i].distance < sh_distance
    /\ sh_hits[i].distance <= sh_prev.hits[i].distance

\* C3 as stated: for a single occluder and a fixed light, at any two
\* distances d1 <= d2 below the light's, cast_shadow is not smaller at d1.
C3_Monotone ==
    \A i \in 1..Len(sh_hits) :
        OneOccluderMovedCloser(i) => sh_intensity >= sh_prev.intensity

\* C3 as amended: the same for 1e-3 < d1 <= d2 below the light's distance.
C3_MonotoneAboveThreshold ==
    \A i \in 1..Len(sh_hits) :
        (OneOccluderMovedCloser(i) /\ sh_hits[i].distance > EPS_SHADOW) =>
            sh_intensity >= sh_prev.intensity

\* C3, its case: the one occluder has moved closer, staying above the
\* threshold, and the shadow has become darker.
C3_Witness ==
    \E i \in 1..Len(sh_hits) :
        /\ OneOccluderMovedCloser(i)
        /\ sh_hits[i].distance > EPS_SHADOW
        /\ sh_hits[i].distance < sh_prev.hits[i].distance
        /\ sh_intensity > sh_prev.intensity

\* C8: cast_shadow returns a value in [0, 1]: 0 when no shape is hit at a
\* distance d with 1e-3 < d < light_distance, and otherwise
\* 1 - min(1, (d / light_distance)^2) for the first such shape of the list,
\* whatever the shapes after it report.
C8_FirstOccluder ==
    sh_intensity # NotCast =>
        LET occluders == {i \in 1..Len(sh_hits) :
                             /\ sh_hits[i].is_intersecting
                             /\ sh_hits[i].distance > EPS_SHADOW
                             /\ sh_hits[i].distance < sh_distance}
        IN  /\ 0 <= sh_intensity /\ sh_intensity <= FP
            /\ IF occluders = {}
               THEN sh_intensity = 0
               ELSE LET first == CHOOSE i \in occluders : \A j \in occluders : i <= j
                        ratio == (sh_hits[first].distance * FP) \div sh_distance
                        square == (ratio * ratio) \div FP
                    IN  sh_intensity = FP - (IF square < FP THEN square ELSE FP)

\* C8, its case: two shapes occlude, and the second of the list is the
\* nearer to the shaded point.
C8_Witness ==
    /\ sh_intensity # NotCast /\ Len(sh_hits) = 2
    /\ Occludes(sh_hits[1], sh_distance) /\ Occludes(sh_hits[2], sh_distance)
    /\ sh_hits[2].distance < sh_hits[1].distance

\* C10 as stated: with a texture and UV, the base colour is the texel whose
\* coordinates are the nearest to (u*(width-1), v*(height-1)) for u and v
\* clamped to [0, 1], and they lie in the texture; the diffuse colour is
\* used only with no texture or no UV.
C10_NearestTexel ==
    tx_base # NoColor =>
        LET tex == tx_intersect.material.texture
            uv == tx_intersect.uv
        IN  IF tex # NoTexture /\ uv # NoUV
            THEN \E tx \in 0..(tex.width - 1), ty \in 0..(tex.height - 1) :
                    /\ tx_base = get_pixel(tex, tx, ty)
                    /\ LET exact == Clamp(uv[1], 0, FP) * (tex.width - 1)
                       IN  2 * (tx * FP - exact) <= FP /\ 2 * (exact - tx * FP) <= FP
                    /\ LET exact == Clamp(uv[2], 0, FP) * (tex.height - 1)
                       IN  2 * (ty * FP - exact) <= FP /\ 2 * (exact - ty * FP) <= FP
            ELSE tx_base = tx_intersect.material.diffuse

AnyRunning == \E y \in DOMAIN row_x : row_x[y] < FbWidth

\* C5: a cell is written only by the worker of its own row and at most once
\* in a pass, and when render has returned every cell has been written once,
\* by the worker of its row, with the packed colour of cast_ray at depth 0
\* for its pixel: the buffer is the same under every schedule.
C5_RowsWriteOwnCells ==
    /\ \A i \in 1..Len(buffer) :
          /\ Len(writes[i]) <= 1
          /\ \A k \in 1..Len(writes[i]) : writes[i][k] = (i - 1) \div FbWidth
    /\ pc = "blit" =>
          \A y \in 0..(FbHeight - 1) : \A x \in 0..(FbWidth - 1) :
             /\ writes[y * FbWidth + x + 1] = <<y>>
             /\ buffer[y * FbWidth + x + 1] =
                   to_hex(cast_ray(PixelRay(camera, objects, lights, x, y), lights, 0))

\* C5, its case: the second pass has returned, over the buffer of the first,
\* with pixels of different colours.
C5_Witness ==
    /\ pc = "blit" /\ iteration = 2
    /\ \E i, j \in 1..Len(buffer) : buffer[i] # buffer[j]
    /\ window # <<>> /\ window # buffer

\* C6: no row worker runs outside a render pass; the camera and the
\* velocities change only in the loop's own step, with no worker running,
\* which goes on to render; the loop goes mutation, fork, join, blit; render
\* returns, and the window gets the buffer, only with every worker finished
\* and every cell written; the objects and the lights never change.
C6_Alternation ==
    /\ [](AnyRunning => pc = "rendering")
    /\ [][(camera' # camera \/ yaw_velocity' # yaw_velocity
              \/ pitch_velocity' # pitch_velocity)
            => (pc = "loop" /\ pc' = "render" /\ ~AnyRunning)]_vars
    /\ [][pc' # pc => <<pc, pc'>> \in {<<"loop", "render">>, <<"render", "rendering">>,
                                        <<"rendering", "blit">>, <<"blit", "loop">>,
                                        <<"loop", "exit">>}]_vars
    /\ [][(pc = "rendering" /\ pc' = "blit") => ~AnyRunning]_vars
    /\ [][window' # window =>
            (pc = "blit" /\ ~AnyRunning /\ \A i \in 1..Len(buffer) : writes[i] # <<>>)]_vars
    /\ [][objects' = objects /\ lights' = lights]_vars

\* C6, its case: in the second iteration the camera has moved, the pass has
\* started and a worker is part-way through its row.
C6_Witness ==
    /\ iteration = 2 /\ pc = "rendering"
    /\ camera # Camera(0, 0)
    /\ \E y \in DOMAIN row_x : row_x[y] > 0 /\ row_x[y] < FbWidth
    /\ window # <<>>

====
